---- MODULE Spec2Model ----
(***************************************************************************)
(* Model of the EFF bundle adapter (src/eff/adapters_v1.py) and of the     *)
(* schema detection in front of it (src/app/streamlit_app.py, is_v1 and    *)
(* to_v1).                                                                 *)
(*                                                                         *)
(* JSON / Python values are tagged records [t |-> tag, v |-> payload]:     *)
(*   null, bool (BOOLEAN), num (<<m, e>>, the decimal m / 10^e with m not  *)
(*   divisible by 10 unless e = 0), str (a TLA+ string, read character by  *)
(*   character with SubSeq), list (a sequence of values), dict (a function *)
(*   from key strings to values).                                          *)
(* A Python exception leaving an expression is the value                   *)
(*   [t |-> "raise", v |-> <exception class>]; it propagates through every *)
(*   operator below the way it unwinds the Python call stack.              *)
(***************************************************************************)
EXTENDS Integers, Sequences, FiniteSets, TLC

VARIABLES payload, op, result

vars == <<payload, op, result>>

-----------------------------------------------------------------------------
(* Values *)

Null == [t |-> "null"]
Bool(b) == [t |-> "bool", v |-> b]
Num(n) == [t |-> "num", v |-> <<n, 0>>]
Str(s) == [t |-> "str", v |-> s]
List(xs) == [t |-> "list", v |-> xs]
Dict(f) == [t |-> "dict", v |-> f]

NoKeys == [k \in {} |-> Null]
EmptyDict == Dict(NoKeys)
EmptyList == List(<<>>)
EmptyStr == Str("")

\* The em dash U+2014 of the source's placeholder "—", written in ASCII.
EmDash == "--"

Raise(exc) == [t |-> "raise", v |-> exc]
AttributeError == Raise("AttributeError")
TypeError == Raise("TypeError")
IsRaise(x) == x.t = "raise"

\* Python truth value testing: None, False, 0, "", [] and {} are falsy.
Truthy(x) ==
    CASE x.t = "null" -> FALSE
      [] x.t = "bool" -> x.v
      [] x.t = "num" -> x.v[1] # 0
      [] x.t = "str" -> Len(x.v) > 0
      [] x.t = "list" -> Len(x.v) > 0
      [] x.t = "dict" -> DOMAIN x.v # {}

\* obj.get(key, default): only a dict has the method.
PyGet(obj, key, default) ==
    IF IsRaise(obj) THEN obj
    ELSE IF obj.t = "dict"
         THEN IF key \in DOMAIN obj.v THEN obj.v[key] ELSE default
         ELSE AttributeError

\* a or b: b is evaluated only when a is falsy.
PyOr(a, b) == IF IsRaise(a) THEN a ELSE IF Truthy(a) THEN a ELSE b

-----------------------------------------------------------------------------
(* Characters and strings *)

Digits == "0123456789"
UpperCase == "ABCDEFGHIJKLMNOPQRSTUVWXYZ"
LowerCase == "abcdefghijklmnopqrstuvwxyz"

\* The character at position i (from 1), "" outside the string.
CharAt(s, i) == IF 1 <= i /\ i <= Len(s) THEN SubSeq(s, i, i) ELSE ""
CharsOf(s) == {CharAt(s, i) : i \in 1..Len(s)}
IndexIn(alphabet, c) == CHOOSE i \in 1..Len(alphabet) : CharAt(alphabet, i) = c

DigitChars == CharsOf(Digits)
UpperChars == CharsOf(UpperCase)
\* \w of the regular expressions: letters, digits and the underscore.
WordChars == UpperChars \cup CharsOf(LowerCase) \cup DigitChars \cup {"_"}
\* \s of the regular expressions and the characters str.strip() removes.
SpaceChars == {" ", "\t", "\n"}

IsDigit(c) == c \in DigitChars
IsWord(c) == c \in WordChars
IsSpace(c) == c \in SpaceChars

LowerChar(c) == IF c \in UpperChars THEN CharAt(LowerCase, IndexIn(UpperCase, c)) ELSE c

RECURSIVE PyLower(_)
PyLower(s) == IF s = "" THEN "" ELSE LowerChar(CharAt(s, 1)) \o PyLower(Tail(s))

RECURSIVE LStrip(_)
LStrip(s) == IF s # "" /\ IsSpace(CharAt(s, 1)) THEN LStrip(Tail(s)) ELSE s

RECURSIVE RStrip(_)
RStrip(s) ==
    IF s # "" /\ IsSpace(CharAt(s, Len(s))) THEN RStrip(SubSeq(s, 1, Len(s) - 1)) ELSE s

PyStrip(s) == RStrip(LStrip(s))

RECURSIVE NatToStr(_)
NatToStr(n) ==
    IF n < 10 THEN CharAt(Digits, n + 1)
    ELSE NatToStr(n \div 10) \o CharAt(Digits, (n % 10) + 1)

\* str(x) and the {x} of an f-string, for None, booleans, integers and strings.
PyStr(x) ==
    CASE x.t = "null" -> "None"
      [] x.t = "bool" -> IF x.v THEN "True" ELSE "False"
      [] x.t = "str" -> x.v
      [] x.t = "num" /\ x.v[2] = 0 ->
            IF x.v[1] < 0 THEN "-" \o NatToStr(0 - x.v[1]) ELSE NatToStr(x.v[1])

\* sep.join(items): TypeError unless every item is a str.
RECURSIVE JoinStrs(_, _)
JoinStrs(sep, items) ==
    IF Len(items) = 0 THEN ""
    ELSE IF Len(items) = 1 THEN items[1].v
    ELSE items[1].v \o sep \o JoinStrs(sep, Tail(items))

PyJoin(sep, lst) ==
    IF \E i \in 1..Len(lst.v) : lst.v[i].t # "str" THEN TypeError
    ELSE Str(JoinStrs(sep, lst.v))

-----------------------------------------------------------------------------
(* The regular expressions of _PATTERNS and _BOOL_PATTERNS.                *)
(* Each has the shape  [q]name[q] separator value : the name is [\w_]+,    *)
(* between backticks (q) or bare; the separator is \s+is\s+ or \s*:\s*; the    *)
(* value is _NUM or true|false. re.IGNORECASE folds the case of "is",      *)
(* "true" and "false". A match is the pair of its groups k and v.          *)

\* The backtick U+0060 of the first numeric pattern. A TLA+ string literal
\* cannot hold that character, so the apostrophe stands for it in every
\* text of this module; to the patterns both are plain non-\w, non-\s
\* characters.
Backtick == "'"

RECURSIVE WordEnd(_, _)
\* First position at or after i that holds no \w character.
WordEnd(s, i) == IF IsWord(CharAt(s, i)) THEN WordEnd(s, i + 1) ELSE i

RECURSIVE SpaceEnd(_, _)
\* First position at or after i that holds no \s character.
SpaceEnd(s, i) == IF IsSpace(CharAt(s, i)) THEN SpaceEnd(s, i + 1) ELSE i

RECURSIVE DigitEnd(_, _)
\* First position at or after i that holds no \d character.
DigitEnd(s, i) == IF IsDigit(CharAt(s, i)) THEN DigitEnd(s, i + 1) ELSE i

\* Whether the literal word (lower case) stands at position i, any case.
LiteralAt(s, i, word) ==
    /\ i + Len(word) - 1 <= Len(s)
    /\ PyLower(SubSeq(s, i, i + Len(word) - 1)) = word

\* _NUM = [-+]?\d*\.?\d+ tried at position p: the position after the match
\* the backtracking matcher finds first, 0 when there is none. The sign and
\* the digits are taken greedily; "." is taken when a digit follows it,
\* otherwise the match ends with the digits before it.
NumDigits(s, p1, d1) ==
    IF CharAt(s, d1) = "." /\ IsDigit(CharAt(s, d1 + 1)) THEN DigitEnd(s, d1 + 1)
    ELSE IF d1 > p1 THEN d1
    ELSE 0

NumFrom(s, p1) == NumDigits(s, p1, DigitEnd(s, p1))

NumEnd(s, p) == NumFrom(s, IF CharAt(s, p) \in {"-", "+"} THEN p + 1 ELSE p)

\* (?P<v>true|false) tried at position p.
BoolEnd(s, p) ==
    IF LiteralAt(s, p, "true") THEN p + 4
    ELSE IF LiteralAt(s, p, "false") THEN p + 5
    ELSE 0

NoMatch == [found |-> FALSE]

\* The value group, tried at vs and ending before ve.
Captured(s, k, vs, ve) ==
    IF ve # 0 THEN [found |-> TRUE, k |-> k, v |-> SubSeq(s, vs, ve - 1)] ELSE NoMatch

MatchValue(pat, s, k, vs) ==
    Captured(s, k, vs, IF pat.val = "num" THEN NumEnd(s, vs) ELSE BoolEnd(s, vs))

\* The second \s+ of \s+is\s+ runs from position from to vs.
MatchAfterIs(pat, s, k, from, vs) == IF vs > from THEN MatchValue(pat, s, k, vs) ELSE NoMatch

\* The separator, after the name (and its closing backtick) ended before
\* position after; sp1 is the end of the \s run that starts there. Each \s
\* run is taken whole: what follows it in the pattern is no \s character.
MatchSeparator(pat, s, k, after, sp1) ==
    IF pat.sep = "is"
    THEN IF sp1 > after /\ LiteralAt(s, sp1, "is")
         THEN MatchAfterIs(pat, s, k, sp1 + 2, SpaceEnd(s, sp1 + 2))
         ELSE NoMatch
    ELSE IF CharAt(s, sp1) = ":"
         THEN MatchValue(pat, s, k, SpaceEnd(s, sp1 + 1))
         ELSE NoMatch

\* MatchAfterName stepping over a backtick that closes a bare name.
MatchAfterNameSkippingQuote(pat, s, k, after) ==
    IF CharAt(s, after) = Backtick
    THEN MatchSeparator(pat, s, k, after + 1, SpaceEnd(s, after + 1))
    ELSE MatchSeparator(pat, s, k, after, SpaceEnd(s, after))

MatchAfterName(pat, s, k, after) == MatchSeparator(pat, s, k, after, SpaceEnd(s, after))

\* The name group from ks to before ke: the whole run of \w characters
\* (what follows the name in the pattern is no \w character).
MatchName(pat, s, i, ks, ke) ==
    IF ke > ks /\ (pat.quoted => CharAt(s, i) = Backtick /\ CharAt(s, ke) = Backtick)
    THEN MatchAfterName(pat, s, SubSeq(s, ks, ke - 1), IF pat.quoted THEN ke + 1 ELSE ke)
    ELSE NoMatch

MatchNameFrom(pat, s, i, ks) == MatchName(pat, s, i, ks, WordEnd(s, ks))

\* pattern.match at position i.
MatchAt(pat, s, i) == MatchNameFrom(pat, s, i, IF pat.quoted THEN i + 1 ELSE i)

RECURSIVE SearchFrom(_, _, _)
RECURSIVE MatchOrSearchOn(_, _, _, _)
MatchOrSearchOn(m, pat, s, i) == IF m.found THEN m ELSE SearchFrom(pat, s, i + 1)

SearchFrom(pat, s, i) ==
    IF i > Len(s) THEN NoMatch ELSE MatchOrSearchOn(MatchAt(pat, s, i), pat, s, i)

\* pattern.search(s): the match at the leftmost position that has one.
Search(pat, s) == SearchFrom(pat, s, 1)

PATTERNS ==
    << [quoted |-> TRUE, sep |-> "is", val |-> "num"],
       [quoted |-> FALSE, sep |-> ":", val |-> "num"],
       [quoted |-> FALSE, sep |-> "is", val |-> "num"] >>

BOOL_PATTERNS ==
    << [quoted |-> FALSE, sep |-> "is", val |-> "bool"],
       [quoted |-> FALSE, sep |-> ":", val |-> "bool"] >>

-----------------------------------------------------------------------------
(* _extract_features_from_text_lists *)

RECURSIVE StrToNat(_)
StrToNat(s) ==
    IF s = "" THEN 0
    ELSE 10 * StrToNat(SubSeq(s, 1, Len(s) - 1)) + (IndexIn(Digits, CharAt(s, Len(s))) - 1)

RECURSIVE Normalise(_, _)
\* The decimal m / 10^e without trailing zeros in its fraction.
Normalise(m, e) == IF e > 0 /\ m % 10 = 0 THEN Normalise(m \div 10, e - 1) ELSE <<m, e>>

Signed(negative, m) == IF negative THEN 0 - m ELSE m

\* The decimal with integer digits ip and fraction digits fp.
Decimal(negative, ip, fp) ==
    [t |-> "num", v |-> Normalise(Signed(negative, StrToNat(ip \o fp)), Len(fp))]

FloatDigits(negative, body, d1) ==
    Decimal(negative, SubSeq(body, 1, d1 - 1),
            IF CharAt(body, d1) = "." THEN SubSeq(body, d1 + 1, Len(body)) ELSE "")

FloatBody(negative, body) == FloatDigits(negative, body, DigitEnd(body, 1))

\* float(v) for a _NUM token: sign, digits, "." and digits. Two tokens give
\* equal floats exactly when they denote the same decimal (at the lengths
\* used here, well inside a double's 15 significant digits).
PyFloat(v) ==
    FloatBody(CharAt(v, 1) = "-", IF CharAt(v, 1) \in {"-", "+"} THEN Tail(v) ELSE v)

\* What float() accepts among the strings the patterns can capture.
IsFloatText(v) == v # "" /\ NumEnd(v, 1) = Len(v) + 1

RECURSIVE PyReplace(_, _, _)
\* s.replace(old, new) for a one-character old.
PyReplace(s, old, new) ==
    IF s = "" THEN ""
    ELSE (IF CharAt(s, 1) = old THEN new ELSE CharAt(s, 1)) \o PyReplace(Tail(s), old, new)

\* AddStripped keeping the captured number as its text.
AddStrippedAsText(feats, k, v, lv) ==
    IF k = "" THEN feats
    ELSE IF lv \in {"true", "false"} THEN (PyReplace(k, " ", "_") :> Bool(lv = "true")) @@ feats
    ELSE IF IsFloatText(v) THEN (PyReplace(k, " ", "_") :> Str(v)) @@ feats
    ELSE feats

\* _try_add after k = k.strip(), with lv = v.lower().
AddStripped(feats, k, v, lv) ==
    IF k = "" THEN feats
    ELSE IF lv \in {"true", "false"} THEN (PyReplace(k, " ", "_") :> Bool(lv = "true")) @@ feats
    ELSE IF IsFloatText(v) THEN (PyReplace(k, " ", "_") :> PyFloat(v)) @@ feats
    ELSE feats

\* _try_add(k, v) on the features gathered so far (a function from names).
try_add(feats, k, v) == AddStripped(feats, PyStrip(k), v, PyLower(v))

\* m = p.search(s); if m: _try_add(m.group("k"), m.group("v"))
AddMatch(feats, m) == IF m.found THEN try_add(feats, m.k, m.v) ELSE feats

RECURSIVE ApplyPatterns(_, _, _, _)
\* "for p in pats:" from pattern i on.
ApplyPatterns(feats, pats, s, i) ==
    IF i > Len(pats) THEN feats
    ELSE ApplyPatterns(AddMatch(feats, Search(pats[i], s)), pats, s, i + 1)

\* ScanStripped applying the numeric patterns before the boolean ones.
ScanStrippedNumericFirst(feats, s) ==
    ApplyPatterns(ApplyPatterns(feats, PATTERNS, s, 1), BOOL_PATTERNS, s, 1)

\* The loop body after s = s.strip(): the boolean patterns, then the numeric ones.
ScanStripped(feats, s) ==
    ApplyPatterns(ApplyPatterns(feats, BOOL_PATTERNS, s, 1), PATTERNS, s, 1)

ScanItem(feats, s) == ScanStripped(feats, PyStrip(s))

\* The items of one argument L: none when L is falsy or neither str nor list.
ItemsOf(L) ==
    IF ~Truthy(L) THEN <<>>
    ELSE IF L.t = "str" THEN <<L.v>>
    ELSE IF L.t = "list" THEN [i \in 1..Len(L.v) |-> PyStr(L.v[i])]
    ELSE <<>>

RECURSIVE ScanItems(_, _, _)
ScanItems(feats, items, i) ==
    IF i > Len(items) THEN feats ELSE ScanItems(ScanItem(feats, items[i]), items, i + 1)

RECURSIVE ScanLists(_, _, _)
ScanLists(feats, lists, i) ==
    IF i > Len(lists) THEN feats
    ELSE ScanLists(ScanItems(feats, ItemsOf(lists[i]), 1), lists, i + 1)

extract_features_from_text_lists(lists) == Dict(ScanLists(NoKeys, lists, 1))

-----------------------------------------------------------------------------
(* _scenarios_list_to_dict *)

\* The normalized record stored for one scenario mapping s.
ScenarioEntry(s) ==
    Dict([earnings_direction |-> PyGet(s, "earnings_direction", Str(EmDash)),
          confidence |-> PyOr(PyGet(s, "confidence", Null), Str(EmDash)),
          primary_drivers |-> PyOr(PyGet(s, "primary_drivers", EmptyList), EmptyList),
          explanation |-> PyOr(PyGet(s, "description", EmptyStr), EmptyStr)])

\* raw.strip().lower(): only a str has strip().
StripLower(raw) == IF raw.t = "str" THEN Str(PyLower(PyStrip(raw.v))) ELSE AttributeError

\* name = (s.get("scenario") or "").strip().lower()
ScenarioName(s) == StripLower(PyOr(PyGet(s, "scenario", Null), EmptyStr))

RECURSIVE ScenarioLoop(_, _, _)
RECURSIVE ScenarioStep(_, _, _, _)
\* ScenarioStep keeping the entry a name already has.
ScenarioStepFirstWins(out, lst, i, name) ==
    IF IsRaise(name) THEN name
    ELSE IF name.v = "" THEN ScenarioLoop(out, lst, i + 1)
    ELSE ScenarioLoop(out @@ (name.v :> ScenarioEntry(lst[i])), lst, i + 1)

\* The loop body for the mapping lst[i] once its name is computed.
ScenarioStep(out, lst, i, name) ==
    IF IsRaise(name) THEN name
    ELSE IF name.v = "" THEN ScenarioLoop(out, lst, i + 1)
    ELSE ScenarioLoop((name.v :> ScenarioEntry(lst[i])) @@ out, lst, i + 1)

\* The for loop from record i on, out being the mapping built so far.
ScenarioLoop(out, lst, i) ==
    IF i > Len(lst) THEN Dict(out)
    ELSE IF lst[i].t # "dict" THEN ScenarioLoop(out, lst, i + 1)
    ELSE ScenarioStep(out, lst, i, ScenarioName(lst[i]))

scenarios_list_to_dict(scenarios_list) ==
    IF IsRaise(scenarios_list) THEN scenarios_list
    ELSE IF scenarios_list.t # "list" THEN EmptyDict
    ELSE ScenarioLoop(NoKeys, scenarios_list.v, 1)

-----------------------------------------------------------------------------
(* adapt_internal_bundle_to_v1. The body runs statement by statement on    *)
(* the record of its local variables; a statement that raises replaces the *)
(* record by the exception, which every later statement passes on.         *)

SCHEMA_VERSION == "eff_assessment_v1"

DefaultWindowWeeks == 8

Returned(doc) == [kind |-> "returned", doc |-> doc]
Raised(exc) == [kind |-> "raised", exc |-> exc]

Locals(final_out) == [t |-> "locals", final_out |-> final_out]

\* name = value
Assign(env, name, value) ==
    IF IsRaise(env) THEN env
    ELSE IF IsRaise(value) THEN value
    ELSE (name :> value) @@ env

\* final_out.get(key, {}) or {}
Section(final_out, key) == PyOr(PyGet(final_out, key, EmptyDict), EmptyDict)

\* business_id_of with the narrative section consulted before the top level.
business_id_narrative_first(final_out, scenarios_obj, narrative, demand) ==
    PyOr(PyGet(narrative, "business_id", Null),
    PyOr(PyGet(final_out, "business_id", Null),
    PyOr(PyGet(scenarios_obj, "business_id", Null),
    PyOr(PyGet(demand, "business_id", Null),
         Str(EmDash)))))

business_id_of(final_out, scenarios_obj, narrative, demand) ==
    PyOr(PyGet(final_out, "business_id", Null),
    PyOr(PyGet(scenarios_obj, "business_id", Null),
    PyOr(PyGet(narrative, "business_id", Null),
    PyOr(PyGet(demand, "business_id", Null),
         Str(EmDash)))))

diag_of(narrative) ==
    IF narrative.t = "dict" THEN PyOr(PyGet(narrative, "diagnostics", Null), EmptyDict)
    ELSE EmptyDict

posture_of(scenarios_obj, diag) ==
    PyOr(PyGet(scenarios_obj, "posture", Null),
    PyOr(PyGet(diag, "earnings_posture_rule_result", Null),
         Str("Unknown")))

confidence_of(narrative, diag) ==
    PyOr(PyGet(narrative, "confidence_level", Null),
    PyOr(PyGet(diag, "confidence_level_rule_result", Null),
         Str("unknown")))

\* headline_of testing "cap_reality is not None" in place of its truth value.
headline_if_not_none(posture, cap_reality) ==
    Str(PyStr(posture) \o "."
        \o (IF cap_reality # Null
            THEN " Capacity reality: " \o PyStr(cap_reality) \o "."
            ELSE ""))

headline_of(posture, cap_reality) ==
    Str(PyStr(posture) \o "."
        \o (IF Truthy(cap_reality)
            THEN " Capacity reality: " \o PyStr(cap_reality) \o "."
            ELSE ""))

summary_of(narrative) ==
    PyOr(PyGet(narrative, "base_case_summary", Null),
    PyOr(PyGet(narrative, "future_earnings_profile", Null),
         EmptyStr))

\* label + "; ".join(src), as the one entry appended to drivers.
JoinedEntry(label, joined) ==
    IF IsRaise(joined) THEN joined ELSE List(<<Str(label \o joined.v)>>)

\* if isinstance(src, list) and src: drivers.append(label + "; ".join(src))
DriverEntries(src, label) ==
    IF IsRaise(src) THEN src
    ELSE IF src.t = "list" /\ Truthy(src) THEN JoinedEntry(label, PyJoin("; ", src))
    ELSE EmptyList

\* BothEntries with the downside entry appended first.
BothEntriesDownFirst(up, down) ==
    IF IsRaise(up) THEN up
    ELSE IF IsRaise(down) THEN down
    ELSE List(down.v \o up.v)

\* drivers after both blocks, given the entries each block appends.
BothEntries(up, down) ==
    IF IsRaise(up) THEN up
    ELSE IF IsRaise(down) THEN down
    ELSE List(up.v \o down.v)

drivers_of(narrative) ==
    BothEntries(
        DriverEntries(PyGet(narrative, "upside_conditions", Null), "Upside conditions: "),
        DriverEntries(PyGet(narrative, "downside_risks", Null), "Downside risks: "))

\* The call of the extraction once its three arguments are evaluated.
ExtractFrom(a1, a2, a3) ==
    IF IsRaise(a1) THEN a1
    ELSE IF IsRaise(a2) THEN a2
    ELSE IF IsRaise(a3) THEN a3
    ELSE extract_features_from_text_lists(<<a1, a2, a3>>)

\* FeatsOrExtract running the extraction whatever feats is.
FeatsAlwaysExtracted(feats, demand, capacity, risk) ==
    ExtractFrom(PyGet(demand, "key_factors", Null),
                PyGet(capacity, "key_factors", Null),
                PyGet(risk, "key_factors", Null))

\* if not isinstance(feats, dict) or not feats: feats = _extract_...(...)
FeatsOrExtract(feats, demand, capacity, risk) ==
    IF feats.t = "dict" /\ Truthy(feats) THEN feats
    ELSE ExtractFrom(PyGet(demand, "key_factors", Null),
                     PyGet(capacity, "key_factors", Null),
                     PyGet(risk, "key_factors", Null))

feats_of(final_out, demand, capacity, risk) ==
    FeatsOrExtract(PyGet(final_out, "features", Null), demand, capacity, risk)

\* f"{label}: {value}"
Labelled(label, value) ==
    IF IsRaise(value) THEN value ELSE Str(label \o ": " \o PyStr(value))

\* The list of the items, or the first exception among them.
ListOrRaise(items) ==
    IF \E i \in 1..Len(items) : IsRaise(items[i])
    THEN items[CHOOSE i \in 1..Len(items) :
                   IsRaise(items[i]) /\ \A j \in 1..(i - 1) : ~IsRaise(items[j])]
    ELSE List(items)

rules_fired_of(diag) ==
    ListOrRaise(<< Labelled("demand_certainty", PyGet(diag, "demand_certainty", Null)),
                   Labelled("capacity_reality", PyGet(diag, "capacity_reality", Null)),
                   Labelled("earnings_posture", PyGet(diag, "earnings_posture_rule_result", Null)),
                   Labelled("confidence", PyGet(diag, "confidence_level_rule_result", Null)) >>)

\* Lines 101-105.
SetSections(env) ==
    Assign(Assign(Assign(Assign(Assign(env,
        "demand", Section(env.final_out, "demand")),
        "capacity", Section(env.final_out, "capacity")),
        "risk", Section(env.final_out, "risk")),
        "narrative", Section(env.final_out, "narrative")),
        "scenarios_obj", Section(env.final_out, "scenarios"))

\* Lines 107-113.
SetBusinessId(env) ==
    Assign(env, "business_id",
           business_id_of(env.final_out, env.scenarios_obj, env.narrative, env.demand))

\* Line 115.
SetDiag(env) == Assign(env, "diag", diag_of(env.narrative))

\* Lines 116-120.
SetPosture(env) == Assign(env, "posture", posture_of(env.scenarios_obj, env.diag))

\* Lines 121-125.
SetConfidence(env) == Assign(env, "confidence", confidence_of(env.narrative, env.diag))

\* Line 128.
SetCapReality(env) == Assign(env, "cap_reality", PyGet(env.diag, "capacity_reality", Null))

\* Line 129.
SetHeadline(env) == Assign(env, "headline", headline_of(env.posture, env.cap_reality))

\* Lines 132-136.
SetSummary(env) == Assign(env, "summary", summary_of(env.narrative))

\* Lines 139-143.
SetDrivers(env) == Assign(env, "drivers", drivers_of(env.narrative))

\* Line 146.
SetScenariosDict(env) ==
    Assign(env, "scenarios_dict",
           scenarios_list_to_dict(PyGet(env.scenarios_obj, "scenarios", EmptyList)))

\* Lines 150-156.
SetFeats(env) ==
    Assign(env, "feats", feats_of(env.final_out, env.demand, env.capacity, env.risk))

\* Lines 159-164.
SetRulesFired(env) == Assign(env, "rules_fired", rules_fired_of(env.diag))

\* Lines 166-196: the returned document, or the exception that ended the call.
Return(env) ==
    IF IsRaise(env) THEN Raised(env.v)
    ELSE Returned(Dict(
           [schema_version |-> Str(SCHEMA_VERSION),
            business_id |-> env.business_id,
            window_weeks |-> PyGet(env.final_out, "window_weeks", Num(DefaultWindowWeeks)),
            posture |-> env.posture,
            confidence |-> env.confidence,
            headline |-> env.headline,
            signals |-> Dict([demand |-> env.demand,
                              capacity |-> env.capacity,
                              risk |-> env.risk]),
            scenarios |-> env.scenarios_dict,
            narrative |-> Dict([summary |-> env.summary, drivers |-> env.drivers]),
            explainability |-> Dict([features |-> env.feats]),
            diagnostics |-> Dict([rules_fired |-> env.rules_fired, flags |-> EmptyDict])]))

adapt_internal_bundle_to_v1(final_out) ==
    Return(SetRulesFired(SetFeats(SetScenariosDict(SetDrivers(SetSummary(SetHeadline(
           SetCapReality(SetConfidence(SetPosture(SetDiag(SetBusinessId(SetSections(
           Locals(final_out))))))))))))))

-----------------------------------------------------------------------------
(* is_v1 and to_v1 of the application *)

is_v1(p) == PyGet(p, "schema_version", Null) = Str(SCHEMA_VERSION)

\* to_v1 without the schema detection.
to_v1_always_adapts(p) == adapt_internal_bundle_to_v1(p)

to_v1(p) == IF is_v1(p) THEN Returned(p) ELSE adapt_internal_bundle_to_v1(p)

-----------------------------------------------------------------------------
(* The calls: the application passes the loaded mapping to to_v1           *)
(* (streamlit_app.py line 208); a caller of the package passes it to       *)
(* adapt_internal_bundle_to_v1 directly. op records which call was made,   *)
(* result its outcome.                                                     *)

NoResult == [kind |-> "none"]

CallToV1 ==
    /\ op = "none"
    /\ op' = "to_v1"
    /\ result' = to_v1(payload)
    /\ UNCHANGED payload

CallAdapt ==
    /\ op = "none"
    /\ op' = "adapt"
    /\ result' = adapt_internal_bundle_to_v1(payload)
    /\ UNCHANGED payload

Next == CallToV1 \/ CallAdapt

\* The adapter has returned a document for this payload.
AdaptReturned == op = "adapt" /\ result.kind = "returned"

-----------------------------------------------------------------------------
(* Input mappings. A key whose value is Absent is left out of its mapping. *)

Absent == [t |-> "absent"]

RECURSIVE ObjFrom(_, _)
ObjFrom(pairs, i) ==
    IF i > Len(pairs) THEN NoKeys
    ELSE IF pairs[i][2] = Absent THEN ObjFrom(pairs, i + 1)
    ELSE (pairs[i][1] :> pairs[i][2]) @@ ObjFrom(pairs, i + 1)

\* The mapping with the given <<key, value>> pairs.
Obj(pairs) == Dict(ObjFrom(pairs, 1))

RECURSIVE SubsetsUpTo(_, _)
\* The subsets of S with at most n elements.
SubsetsUpTo(S, n) ==
    IF n = 0 THEN {{}}
    ELSE LET P == SubsetsUpTo(S, n - 1) IN P \cup {s \cup {x} : s \in P, x \in S}

RECURSIVE SeqsUpTo(_, _)
\* The sequences over S of length at most n.
SeqsUpTo(S, n) ==
    IF n = 0 THEN {<<>>}
    ELSE LET P == SeqsUpTo(S, n - 1) IN P \cup {Append(q, x) : q \in P, x \in S}

(* Shape inputs: a well-formed legacy bundle in which at most MaxWrong of  *)
(* the known keys are absent or hold a value of another JSON type, and the *)
(* empty mapping.                                                          *)

MaxWrong == 2

WrongValues ==
    [absent |-> Absent,
     null |-> Null,
     string |-> Str("text"),
     number |-> Num(5),
     boolean |-> Bool(TRUE),
     list |-> List(<<Str("x")>>),
     mapping |-> Dict([k |-> Str("x")])]

KnownKeys ==
    {"demand", "capacity", "risk", "narrative", "scenarios", "features",
     "demand.key_factors", "capacity.key_factors", "risk.key_factors",
     "narrative.upside_conditions", "narrative.downside_risks", "narrative.diagnostics",
     "scenarios.scenarios", "scenarios.scenarios[0]",
     "record.scenario", "record.earnings_direction", "record.confidence",
     "record.primary_drivers", "record.description"}

\* wrong maps some known keys to a name of WrongValues; the others are well formed.
ShapedBundle(wrong) ==
    LET At(key, ok) == IF key \in DOMAIN wrong THEN WrongValues[wrong[key]] ELSE ok
        Signal(name, assessment, factor) ==
            At(name, Obj(<< <<"assessment", Str(assessment)>>,
                            <<"key_factors", At(name \o ".key_factors", List(<<Str(factor)>>))>> >>))
        record ==
            At("scenarios.scenarios[0]",
               Obj(<< <<"scenario", At("record.scenario", Str("Base"))>>,
                      <<"earnings_direction", At("record.earnings_direction", Str("Up"))>>,
                      <<"confidence", At("record.confidence", Str("high"))>>,
                      <<"primary_drivers", At("record.primary_drivers", List(<<Str("orders")>>))>>,
                      <<"description", At("record.description", Str("Steady state"))>> >>))
    IN  Obj(<< <<"business_id", Str("acme")>>,
               <<"demand", Signal("demand", "stable", "demand_stability: 0.85")>>,
               <<"capacity", Signal("capacity", "tight", "utilization is 0.72")>>,
               <<"risk", Signal("risk", "low", "no open issues")>>,
               <<"narrative",
                 At("narrative",
                    Obj(<< <<"base_case_summary", Str("Steady")>>,
                           <<"upside_conditions", At("narrative.upside_conditions", List(<<Str("A")>>))>>,
                           <<"downside_risks", At("narrative.downside_risks", List(<<Str("B")>>))>>,
                           <<"diagnostics",
                             At("narrative.diagnostics",
                                Dict([capacity_reality |-> Str("constrained"),
                                      demand_certainty |-> Str("high")]))>> >>))>>,
               <<"scenarios",
                 At("scenarios",
                    Obj(<< <<"posture", Str("Strong")>>,
                           <<"scenarios", At("scenarios.scenarios",
                                             IF record = Absent THEN EmptyList ELSE List(<<record>>))>> >>))>>,
               <<"features", At("features", Dict([demand_stability |-> Num(1)]))>> >>)

\* The bundles with at most n wrong keys, and the empty mapping.
ShapeInputs(n) ==
    {EmptyDict} \cup
    UNION { {ShapedBundle(wrong) : wrong \in [S -> DOMAIN WrongValues]} :
            S \in SubsetsUpTo(KnownKeys, n) }

InitShape == payload \in ShapeInputs(MaxWrong) /\ op = "none" /\ result = NoResult

SpecShape == InitShape /\ [][Next]_vars

(* Field inputs: well-typed legacy bundles that vary the sources of one     *)
(* output field at a time.                                                 *)

\* Present with a value, present but falsy (null, ""), or absent.
IdValues(id) == {Absent, Null, Str(""), Str(id)}

BusinessIdInputs ==
    { Obj(<< <<"business_id", top>>,
             <<"scenarios", Obj(<< <<"business_id", scn>>, <<"posture", Str("Strong")>> >>)>>,
             <<"narrative", Obj(<< <<"business_id", nar>>, <<"base_case_summary", Str("Steady")>> >>)>>,
             <<"demand", Obj(<< <<"business_id", dem>>, <<"assessment", Str("stable")>> >>)>> >>) :
      top \in IdValues("top-co"), scn \in IdValues("scn-co"),
      nar \in IdValues("nar-co"), dem \in IdValues("dem-co") }

PostureValues == {Absent, Null, Str(""), Str("Strong"), Num(5)}
RuleResultValues == {Absent, Str("Weak")}
CapRealityValues == {Absent, Null, Str(""), Str("constrained"), Num(0), Num(3), Bool(FALSE)}

HeadlineInputs ==
    { Obj(<< <<"scenarios", Obj(<< <<"posture", posture>> >>)>>,
             <<"narrative",
               Obj(<< <<"diagnostics",
                        Obj(<< <<"earnings_posture_rule_result", rule>>,
                               <<"capacity_reality", cap>> >>)>> >>)>> >>) :
      posture \in PostureValues, rule \in RuleResultValues, cap \in CapRealityValues }
    \cup
    { Obj(<< <<"scenarios", Obj(<< <<"posture", posture>> >>)>>,
             <<"narrative", Obj(<< <<"diagnostics", diag>> >>)>> >>) :
      posture \in PostureValues, diag \in {Absent, Null} }

MaxDriverItems == 2

\* upside_conditions / downside_risks: absent, null, a string in place of the
\* list, a list with a number in it, and the lists of up to MaxDriverItems texts.
DriverLists ==
    {Absent, Null, Str("A"), List(<<Str("A"), Num(1)>>)}
    \cup {List(q) : q \in SeqsUpTo({Str("A"), Str("B")}, MaxDriverItems)}

DriverInputs ==
    { Obj(<< <<"narrative", Obj(<< <<"upside_conditions", up>>, <<"downside_risks", down>> >>)>> >>) :
      up \in DriverLists, down \in DriverLists }

FieldInputs == BusinessIdInputs \cup HeadlineInputs \cup DriverInputs

InitFields == payload \in FieldInputs /\ op = "none" /\ result = NoResult

SpecFields == InitFields /\ [][Next]_vars

(* Scenario inputs: scenarios.scenarios is a list of up to MaxScenarios     *)
(* entries, or no list at all.                                             *)

MaxScenarios == 2

ScenarioRecord(name, direction) ==
    Obj(<< <<"scenario", name>>, <<"earnings_direction", direction>> >>)

\* Scenario records under names that differ in case and surrounding spaces,
\* or are empty, blank, null, absent or a number; and entries that are no
\* mapping.
ScenarioEntries ==
    { ScenarioRecord(Str(name), Str(direction)) :
      name \in {"Base", "BASE", " base\t", "Up", "", "  "}, direction \in {"Up", "Down"} }
    \cup
    { Obj(<< <<"scenario", Str("Base")>>, <<"confidence", Null>>,
             <<"primary_drivers", List(<<Str("orders")>>)>>, <<"description", Str("Steady state")>> >>),
      ScenarioRecord(Absent, Str("Up")),
      ScenarioRecord(Null, Str("Down")),
      ScenarioRecord(Num(5), Str("Up")),
      Str("Base"),
      Null }

ScenarioInputs ==
    { Obj(<< <<"scenarios", Obj(<< <<"scenarios", List(q)>> >>)>> >>) :
      q \in SeqsUpTo(ScenarioEntries, MaxScenarios) }
    \cup
    { Obj(<< <<"scenarios", Obj(<< <<"posture", Str("Strong")>>, <<"scenarios", other>> >>)>> >>) :
      other \in {Absent, Null, Str("Base"), ScenarioRecord(Str("Base"), Str("Up"))} }

InitScenarios == payload \in ScenarioInputs /\ op = "none" /\ result = NoResult

SpecScenarios == InitScenarios /\ [][Next]_vars

(* Canonical inputs: documents the adapter has produced, with or without a *)
(* field the canonical schema does not name, under a schema_version that   *)
(* is the marker, another string, a number or absent; and legacy bundles   *)
(* carrying the same schema_version values.                                *)

\* doc with key set to value, or without key when value is Absent.
WithKey(doc, key, value) ==
    IF value = Absent THEN Dict([k \in DOMAIN doc.v \ {key} |-> doc.v[k]])
    ELSE Dict((key :> value) @@ doc.v)

CanonicalBodies ==
    {adapt_internal_bundle_to_v1(p).doc : p \in HeadlineInputs \cup BusinessIdInputs}

SchemaVersionValues == {Absent, Str(SCHEMA_VERSION), Str("eff_assessment_v2"), Num(1)}

CanonicalInputs ==
    { WithKey(WithKey(body, "analyst_note", note), "schema_version", version) :
      body \in CanonicalBodies \cup {EmptyDict, ShapedBundle(NoKeys)},
      note \in {Absent, Str("checked")},
      version \in SchemaVersionValues }

InitCanonical == payload \in CanonicalInputs /\ op = "none" /\ result = NoResult

SpecCanonical == InitCanonical /\ [][Next]_vars

(* Text inputs: legacy bundles whose demand, capacity and risk sections    *)
(* carry key_factors texts, with and without a top-level features value.   *)

FeatureNames == {"capacity_constraint_flag", "std_over_mean_orders", "demand_stability"}
NumberWords == {"0.15", "0.85", "-2", "+1.50", ".5", "72"}
BoolWords == {"true", "false", "False"}
Leads == {"", "The "}
SectionNames == {"demand", "capacity", "risk"}

\* The surface forms of one clause of a text item.
ColonNumber(name, w) == name \o ": " \o w
BareBoolean(name, b) == name \o " is " \o b
QuotedBoolean(name, b) == Backtick \o name \o Backtick \o " is " \o b

\* A boolean clause and a colon numeric clause in one text item.
MixedItem(lead, clause, name2, w) == Str(lead \o clause \o " and " \o ColonNumber(name2, w))

\* The bundle whose only content is the key_factors of some sections.
WithKeyFactors(demand, capacity, risk) ==
    Obj(<< <<"demand", Obj(<< <<"key_factors", demand>> >>)>>,
           <<"capacity", Obj(<< <<"key_factors", capacity>> >>)>>,
           <<"risk", Obj(<< <<"key_factors", risk>> >>)>> >>)

\* One section with key_factors kf, the other sections absent.
OnlySection(name, kf) == Obj(<< <<name, Obj(<< <<"key_factors", kf>> >>)>> >>)

\* A single "<name>: <number>" text, as a one-item list or as a bare string,
\* in one of the three sections.
SingleItemInputs ==
    { OnlySection(section, kf) :
      section \in SectionNames,
      kf \in UNION { {List(<<Str(ColonNumber(n, w))>>), Str(ColonNumber(n, w))} :
                     n \in FeatureNames, w \in NumberWords } }

\* risk.key_factors with one item made of a boolean clause, the name quoted
\* or bare, and a colon numeric clause.
MixedItemInputs ==
    { OnlySection("risk", List(<<MixedItem(lead, clause, n2, w)>>)) :
      lead \in Leads,
      clause \in UNION { {QuotedBoolean(n, b), BareBoolean(n, b)} :
                         n \in FeatureNames, b \in BoolWords },
      n2 \in FeatureNames,
      w \in {"0.15", "-2"} }

MaxItems == 2

\* Items that match no pattern: a sentence and a number (str(72) is "72").
UnparseableItems == {Str("no open issues"), Num(72)}

ItemPool ==
    UnparseableItems \cup
    {Str("demand_stability: 0.85"), Str("utilization is 0.72."), Str("demand_stability is true")}

\* The lists of up to MaxItems pool items, cut in three consecutive parts
\* for demand, capacity and risk.
SplitListInputs ==
    UNION { { WithKeyFactors(List(SubSeq(q, 1, i)), List(SubSeq(q, i + 1, j)),
                             List(SubSeq(q, j + 1, Len(q)))) :
              i \in 0..Len(q), j \in 0..Len(q) } :
            q \in SeqsUpTo(ItemPool, MaxItems) }

\* The top-level features: absent, null, empty, a non-empty mapping (with a
\* name the texts also mention, or another), or a list or a string in its place.
FeaturesValues ==
    {Absent, Null, EmptyDict,
     Dict([margin |-> Num(3)]),
     Dict([demand_stability |-> Bool(FALSE), margin |-> Num(3)]),
     List(<<Str("margin: 3")>>),
     Str("margin: 3")}

FeaturesInputs ==
    { Obj(<< <<"features", features>>,
             <<"demand", Obj(<< <<"assessment", Str("stable")>>, <<"key_factors", List(q)>> >>)>> >>) :
      features \in FeaturesValues, q \in SeqsUpTo(ItemPool, MaxItems) }

TextInputs == SingleItemInputs \cup MixedItemInputs \cup SplitListInputs \cup FeaturesInputs

InitText == payload \in TextInputs /\ op = "none" /\ result = NoResult

SpecText == InitText /\ [][Next]_vars

(* Clause inputs: key_factors items made of up to MaxClauses clauses, each  *)
(* in one of the five surface forms of the patterns, joined by " and ".    *)

MaxClauses == 2

ClauseNames == {"util", "flag"}

\* The two boolean forms, then the three numeric forms, in the order in
\* which the loop body applies their patterns.
ClauseForms == <<"bool_is", "bool_colon", "num_quoted", "num_colon", "num_is">>

\* The value words a clause of each form is written with.
ClauseWords(form) ==
    CASE form = "bool_is" -> {"true"}
      [] form = "bool_colon" -> {"False"}
      [] form = "num_quoted" -> {".5"}
      [] form = "num_colon" -> {"-2", "0.15"}
      [] form = "num_is" -> {"72"}

Clauses ==
    UNION { { [form |-> ClauseForms[k], name |-> n, word |-> w] :
              n \in ClauseNames, w \in ClauseWords(ClauseForms[k]) } :
            k \in 1..Len(ClauseForms) }

ClauseText(c) ==
    CASE c.form \in {"bool_is", "num_is"} -> c.name \o " is " \o c.word
      [] c.form \in {"bool_colon", "num_colon"} -> c.name \o ": " \o c.word
      [] c.form = "num_quoted" -> Backtick \o c.name \o Backtick \o " is " \o c.word

RECURSIVE JoinClauses(_)
JoinClauses(cs) ==
    IF Len(cs) = 1 THEN ClauseText(cs[1])
    ELSE ClauseText(cs[1]) \o " and " \o JoinClauses(Tail(cs))

\* The text item made of the clauses cs.
ClauseItem(cs) == Str(JoinClauses(cs))

\* The non-empty clause sequences of up to n clauses.
ClauseSeqs(n) == SeqsUpTo(Clauses, n) \ {<<>>}

\* One item of several clauses as the only text.
ClauseItemInputs ==
    { OnlySection("capacity", List(<<ClauseItem(cs)>>)) : cs \in ClauseSeqs(MaxClauses) }

\* Two one-clause items, the first in demand and the second in risk, and
\* both in one list.
ClausePairInputs ==
    { WithKeyFactors(List(<<ClauseItem(<<c1>>)>>), EmptyList, List(<<ClauseItem(<<c2>>)>>)) :
      c1 \in Clauses, c2 \in Clauses }
    \cup
    { OnlySection("risk", List(<<ClauseItem(<<c1>>), ClauseItem(<<c2>>)>>)) :
      c1 \in Clauses, c2 \in Clauses }

OrderInputs == ClauseItemInputs \cup ClausePairInputs \cup SplitListInputs

InitOrder == payload \in OrderInputs /\ op = "none" /\ result = NoResult

SpecOrder == InitOrder /\ [][Next]_vars

-----------------------------------------------------------------------------
(* Claims on the shape inputs *)

\* C1: adapt_internal_bundle_to_v1 never raises: for every input mapping,
\* known keys absent or of the wrong JSON type included, the call returns a
\* document.
C1_NeverRaises == op = "adapt" => result.kind = "returned"

StartsWith(s, prefix) == Len(s) >= Len(prefix) /\ SubSeq(s, 1, Len(prefix)) = prefix

RuleLabels == <<"demand_certainty", "capacity_reality", "earnings_posture", "confidence">>

HasKeys(d, keys) == d.t = "dict" /\ keys \subseteq DOMAIN d.v

\* rules_fired is a sequence of exactly four strings with the four labels in order.
RulesShaped(rules) ==
    /\ rules.t = "list"
    /\ Len(rules.v) = 4
    /\ \A i \in 1..4 : rules.v[i].t = "str" /\ StartsWith(rules.v[i].v, RuleLabels[i] \o ": ")

\* signals has exactly the keys demand, capacity and risk, each a mapping.
SignalsShaped(signals) ==
    /\ signals.t = "dict"
    /\ DOMAIN signals.v = {"demand", "capacity", "risk"}
    /\ \A k \in DOMAIN signals.v : signals.v[k].t = "dict"

FullyShaped(doc) ==
    /\ HasKeys(doc, {"schema_version", "business_id", "window_weeks", "posture", "confidence",
                     "headline", "signals", "scenarios", "narrative", "explainability",
                     "diagnostics"})
    /\ doc.v.schema_version = Str(SCHEMA_VERSION)
    /\ SignalsShaped(doc.v.signals)
    /\ doc.v.scenarios.t = "dict"
    /\ HasKeys(doc.v.narrative, {"summary", "drivers"})
    /\ HasKeys(doc.v.explainability, {"features"})
    /\ doc.v.explainability.v.features.t = "dict"
    /\ HasKeys(doc.v.diagnostics, {"rules_fired", "flags"})
    /\ RulesShaped(doc.v.diagnostics.v.rules_fired)
    /\ doc.v.diagnostics.v.flags = EmptyDict

\* C3: every document the adapter returns is fully shaped: all the keys of
\* the canonical schema, signals with exactly demand, capacity and risk, each
\* a mapping, four labelled rules_fired strings and empty flags.
C3_FullyShaped == AdaptReturned => FullyShaped(result.doc)

-----------------------------------------------------------------------------
(* Claims on the field inputs *)

\* The value at p[k], Absent when p is no mapping or has no key k.
Field(p, k) == IF p.t = "dict" /\ k \in DOMAIN p.v THEN p.v[k] ELSE Absent

\* The value at p[k1][k2], Absent when a level is missing or no mapping.
Field2(p, k1, k2) == IF Field(p, k1) = Absent THEN Absent ELSE Field(Field(p, k1), k2)

Field3(p, k1, k2, k3) == IF Field2(p, k1, k2) = Absent THEN Absent ELSE Field(Field2(p, k1, k2), k3)

\* The key is there and its value is not null.
Present(x) == x # Absent /\ x # Null

PresentTruthy(x) == x # Absent /\ Truthy(x)

\* The first present-and-truthy candidate, else the default.
FirstPresentTruthy(candidates, default) ==
    IF \E i \in 1..Len(candidates) : PresentTruthy(candidates[i])
    THEN candidates[CHOOSE i \in 1..Len(candidates) :
                        /\ PresentTruthy(candidates[i])
                        /\ \A j \in 1..(i - 1) : ~PresentTruthy(candidates[j])]
    ELSE default

BusinessIdCandidates ==
    << Field(payload, "business_id"),
       Field2(payload, "scenarios", "business_id"),
       Field2(payload, "narrative", "business_id"),
       Field2(payload, "demand", "business_id") >>

\* C5: the output business_id is the first present-and-truthy value among
\* the top-level business_id, scenarios.business_id, narrative.business_id
\* and demand.business_id, in this order, and "—" when there is none.
C5_BusinessIdChain ==
    AdaptReturned =>
        result.doc.v.business_id = FirstPresentTruthy(BusinessIdCandidates, Str(EmDash))

\* C5 witness: the value set only in the narrative section is used.
C5_Witness ==
    /\ AdaptReturned
    /\ ~PresentTruthy(BusinessIdCandidates[1])
    /\ ~PresentTruthy(BusinessIdCandidates[2])
    /\ PresentTruthy(BusinessIdCandidates[3])
    /\ PresentTruthy(BusinessIdCandidates[4])
    /\ result.doc.v.business_id = Str("nar-co")

\* The posture the adapter resolves: scenarios.posture, else the diagnostics'
\* earnings_posture_rule_result, else "Unknown".
ResolvedPosture ==
    FirstPresentTruthy(<< Field2(payload, "scenarios", "posture"),
                          Field3(payload, "narrative", "diagnostics", "earnings_posture_rule_result") >>,
                       Str("Unknown"))

InputCapReality == Field3(payload, "narrative", "diagnostics", "capacity_reality")

CapacityClause == " Capacity reality: " \o PyStr(InputCapReality) \o "."

\* C9 as claimed: the headline is the posture and ".", followed by the
\* capacity clause iff narrative.diagnostics.capacity_reality is present.
C9_HeadlineIffPresent ==
    AdaptReturned =>
        /\ result.doc.v.posture = ResolvedPosture
        /\ result.doc.v.headline =
               Str(PyStr(result.doc.v.posture) \o "."
                   \o (IF Present(InputCapReality) THEN CapacityClause ELSE ""))

\* C9 as amended: the headline is the posture and ".", followed by the
\* capacity clause iff capacity_reality is present and truthy (not null,
\* empty, zero or false); the posture is the one in the posture field.
C9_HeadlineIffTruthy ==
    AdaptReturned =>
        /\ result.doc.v.posture = ResolvedPosture
        /\ result.doc.v.headline =
               Str(PyStr(result.doc.v.posture) \o "."
                   \o (IF PresentTruthy(InputCapReality) THEN CapacityClause ELSE ""))

\* C9 witness: posture "Strong" with capacity_reality "constrained".
C9_Witness ==
    /\ AdaptReturned
    /\ Field2(payload, "scenarios", "posture") = Str("Strong")
    /\ InputCapReality = Str("constrained")
    /\ result.doc.v.headline = Str("Strong. Capacity reality: constrained.")

InputUpside == Field2(payload, "narrative", "upside_conditions")
InputDownside == Field2(payload, "narrative", "downside_risks")

NonEmptyList(x) == x # Absent /\ x.t = "list" /\ Len(x.v) > 0

\* The one entry a non-empty source list contributes, none otherwise.
ExpectedEntry(label, src) ==
    IF NonEmptyList(src) THEN <<Str(label \o JoinStrs("; ", src.v))>> ELSE <<>>

\* C8: narrative.drivers has at most two entries, upside before downside,
\* one "; "-joined entry for each non-empty source list and none for an
\* absent or empty one.
C8_Drivers ==
    AdaptReturned =>
        /\ Len(result.doc.v.narrative.v.drivers.v) <= 2
        /\ result.doc.v.narrative.v.drivers.v =
               ExpectedEntry("Upside conditions: ", InputUpside)
               \o ExpectedEntry("Downside risks: ", InputDownside)

\* C8 witness: both lists non-empty, one of them with several items.
C8_Witness ==
    /\ AdaptReturned
    /\ InputUpside = List(<<Str("A"), Str("B")>>)
    /\ InputDownside = List(<<Str("B")>>)
    /\ result.doc.v.narrative.v.drivers.v =
           <<Str("Upside conditions: A; B"), Str("Downside risks: B")>>

-----------------------------------------------------------------------------
(* Claims on the canonical inputs *)

\* C2: for a document whose schema_version is "eff_assessment_v1", schema
\* detection followed by adaptation (to_v1) returns the document itself,
\* every field kept, nothing added or recomputed.
C2_Idempotent ==
    (op = "to_v1" /\ Field(payload, "schema_version") = Str(SCHEMA_VERSION))
        => result = Returned(payload)

\* C2 witness: a marked document with a field the schema does not name and
\* without a posture, which the adaptation itself would not leave as it is.
C2_Witness ==
    /\ op = "to_v1"
    /\ Field(payload, "schema_version") = Str(SCHEMA_VERSION)
    /\ Field(payload, "analyst_note") = Str("checked")
    /\ Field(payload, "posture") = Absent
    /\ result = Returned(payload)

-----------------------------------------------------------------------------
(* Claims on the scenario inputs *)

InputScenarios == Field2(payload, "scenarios", "scenarios")

\* The entries of the input's scenario list, none when it is no list.
InputScenarioList ==
    IF InputScenarios # Absent /\ InputScenarios.t = "list" THEN InputScenarios.v ELSE <<>>

\* The trimmed, lower-cased name of a mapping-typed record; "" when the
\* record names no string.
NormalizedName(rec) ==
    IF PresentTruthy(Field(rec, "scenario")) /\ Field(rec, "scenario").t = "str"
    THEN PyLower(PyStrip(Field(rec, "scenario").v))
    ELSE ""

\* The positions of the mapping-typed records with a non-empty normalized name.
NamedRecords ==
    {i \in 1..Len(InputScenarioList) :
        InputScenarioList[i].t = "dict" /\ NormalizedName(InputScenarioList[i]) # ""}

\* The last position whose record has the normalized name n.
LastNamed(n) ==
    CHOOSE i \in NamedRecords :
        /\ NormalizedName(InputScenarioList[i]) = n
        /\ \A j \in NamedRecords : NormalizedName(InputScenarioList[j]) = n => j <= i

\* C6: the output scenarios mapping has exactly one entry for each distinct
\* non-empty trimmed, lower-cased name of a mapping-typed record, with the
\* fields of the last record of that name; records with an empty name and
\* entries that are no mapping produce no entry.
C6_LastWins ==
    AdaptReturned =>
        /\ DOMAIN result.doc.v.scenarios.v =
               {NormalizedName(InputScenarioList[i]) : i \in NamedRecords}
        /\ \A n \in DOMAIN result.doc.v.scenarios.v :
               result.doc.v.scenarios.v[n] = ScenarioEntry(InputScenarioList[LastNamed(n)])

\* C6 witness: "Base" with direction Up, then "BASE" with direction Down.
C6_Witness ==
    /\ AdaptReturned
    /\ InputScenarioList = <<ScenarioRecord(Str("Base"), Str("Up")),
                             ScenarioRecord(Str("BASE"), Str("Down"))>>
    /\ DOMAIN result.doc.v.scenarios.v = {"base"}
    /\ result.doc.v.scenarios.v["base"].v.earnings_direction = Str("Down")

-----------------------------------------------------------------------------
(* Claims on the text inputs *)

InputFeatures == Field(payload, "features")

\* The input carries structured features: a non-empty mapping.
StructuredFeatures ==
    InputFeatures # Absent /\ InputFeatures.t = "dict" /\ DOMAIN InputFeatures.v # {}

\* The text items of one section's key_factors.
KeyFactorItems(section) ==
    LET kf == Field2(payload, section, "key_factors")
    IN  IF kf = Absent THEN <<>>
        ELSE IF kf.t = "str" THEN (IF kf.v = "" THEN <<>> ELSE <<kf>>)
        ELSE IF kf.t = "list" THEN kf.v
        ELSE <<>>

AllItems == KeyFactorItems("demand") \o KeyFactorItems("capacity") \o KeyFactorItems("risk")

ResultFeatures == result.doc.v.explainability.v.features

\* The number m / 10^e.
Dec(m, e) == [t |-> "num", v |-> <<m, e>>]

\* The number each number word denotes.
NumberValue(w) ==
    CASE w = "0.15" -> Dec(15, 2)
      [] w = "0.85" -> Dec(85, 2)
      [] w = "-2" -> Dec(-2, 0)
      [] w = "+1.50" -> Dec(15, 1)
      [] w = ".5" -> Dec(5, 1)
      [] w = "72" -> Dec(72, 0)

\* The boolean each boolean word denotes.
BoolValue(b) == b \in {"true", "True", "TRUE"}

\* The features each pool item states.
PoolFeatures(item) ==
    CASE item = Str("demand_stability: 0.85") -> ("demand_stability" :> Dec(85, 2))
      [] item = Str("utilization is 0.72.") -> ("utilization" :> Dec(72, 2))
      [] item = Str("demand_stability is true") -> ("demand_stability" :> Bool(TRUE))

RECURSIVE ExpectedFeatures(_, _)
\* The features of the items that state one, a later item overwriting an
\* earlier one of the same name; the unparseable items are passed over.
ExpectedFeatures(items, acc) ==
    IF items = <<>> THEN acc
    ELSE IF Head(items) \in UnparseableItems THEN ExpectedFeatures(Tail(items), acc)
    ELSE ExpectedFeatures(Tail(items), PoolFeatures(Head(items)) @@ acc)

AllItemsInPool == \A i \in 1..Len(AllItems) : AllItems[i] \in ItemPool

\* C4 as claimed: with no structured features, an item holding the quoted
\* boolean form and a colon numeric form yields the quoted name with its
\* boolean and the second name with its number.
C4_QuotedBoolean ==
    (AdaptReturned /\ ~StructuredFeatures) =>
        \A lead \in Leads, n \in FeatureNames, b \in BoolWords, n2 \in FeatureNames,
           w \in NumberWords :
            (n # n2 /\ AllItems = <<MixedItem(lead, QuotedBoolean(n, b), n2, w)>>) =>
                /\ HasKeys(ResultFeatures, {n, n2})
                /\ ResultFeatures.v[n] = Bool(BoolValue(b))
                /\ ResultFeatures.v[n2] = NumberValue(w)

\* C4 as amended: the boolean form is recognised for a bare name only. With
\* no structured features, an item holding a quoted name "is" true|false and
\* a colon numeric form yields exactly the second name with its number; with
\* the first name bare (and another name than the second) it yields the
\* first name with its boolean and the second with its number.
C4_BareBooleanOnly ==
    (AdaptReturned /\ ~StructuredFeatures) =>
        \A lead \in Leads, n \in FeatureNames, b \in BoolWords, n2 \in FeatureNames,
           w \in NumberWords :
            /\ AllItems = <<MixedItem(lead, QuotedBoolean(n, b), n2, w)>> =>
                   ResultFeatures = Dict(n2 :> NumberValue(w))
            /\ (n # n2 /\ AllItems = <<MixedItem(lead, BareBoolean(n, b), n2, w)>>) =>
                   ResultFeatures =
                       Dict((n :> Bool(BoolValue(b))) @@ (n2 :> NumberValue(w)))

\* C4 witness: the item of the claim's example yields only the number.
C4_Witness ==
    /\ AdaptReturned
    /\ KeyFactorItems("risk") =
           <<Str("The " \o Backtick \o "capacity_constraint_flag" \o Backtick
                 \o " is false and std_over_mean_orders: 0.15")>>
    /\ ResultFeatures = Dict("std_over_mean_orders" :> Dec(15, 2))

\* C7: when the input's top-level features is a non-empty mapping, the
\* output features are that mapping verbatim, whatever the key_factors
\* texts say; when it is absent, empty or no mapping, they are the features
\* the texts state.
C7_StructuredFirst ==
    AdaptReturned =>
        IF StructuredFeatures THEN ResultFeatures = InputFeatures
        ELSE AllItemsInPool => ResultFeatures = Dict(ExpectedFeatures(AllItems, NoKeys))

\* C7 witness: structured features beside a text stating the same name.
C7_Witness ==
    /\ AdaptReturned
    /\ InputFeatures = Dict([demand_stability |-> Bool(FALSE), margin |-> Num(3)])
    /\ AllItems = <<Str("demand_stability: 0.85")>>
    /\ ResultFeatures = InputFeatures

\* C10: with no structured features, a single item "<name>: <number>" as the
\* only text yields exactly that name with the number as a number; an item
\* matching no form adds no feature and the items around it are still read.
C10_ColonNumber ==
    (AdaptReturned /\ ~StructuredFeatures) =>
        /\ \A n \in FeatureNames, w \in NumberWords :
               AllItems = <<Str(ColonNumber(n, w))>> =>
                   ResultFeatures = Dict(n :> NumberValue(w))
        /\ (AllItemsInPool /\ \E i \in 1..Len(AllItems) : AllItems[i] \in UnparseableItems) =>
               ResultFeatures = Dict(ExpectedFeatures(AllItems, NoKeys))

\* C10 witness: demand.key_factors = ["demand_stability: 0.85"].
C10_Witness ==
    /\ AdaptReturned
    /\ Field2(payload, "demand", "key_factors") = List(<<Str("demand_stability: 0.85")>>)
    /\ AllItems = <<Str("demand_stability: 0.85")>>
    /\ ResultFeatures = Dict("demand_stability" :> Dec(85, 2))

-----------------------------------------------------------------------------
(* Claims on the clause inputs *)

\* Each text item of up to MaxClauses clauses with the clauses it is made of.
ClauseTable == {[item |-> ClauseItem(cs), clauses |-> cs] : cs \in ClauseSeqs(MaxClauses)}

ItemClauses(item) == (CHOOSE r \in ClauseTable : r.item = item).clauses

\* The value a clause states.
ClauseValue(c) ==
    IF c.form \in {"bool_is", "bool_colon"} THEN Bool(BoolValue(c.word))
    ELSE NumberValue(c.word)

\* The first clause of cs written in the given form.
FirstOfForm(cs, form) ==
    cs[CHOOSE i \in 1..Len(cs) :
           cs[i].form = form /\ \A j \in 1..(i - 1) : cs[j].form # form]

RECURSIVE ClauseFeatures(_, _, _)
\* The features one item of clauses cs records: from form k on, each form
\* adds the name and value of its first clause in the item, over what the
\* forms before it recorded under that name.
ClauseFeatures(cs, k, acc) ==
    IF k > Len(ClauseForms) THEN acc
    ELSE IF \E i \in 1..Len(cs) : cs[i].form = ClauseForms[k]
         THEN ClauseFeatures(cs, k + 1,
                  (FirstOfForm(cs, ClauseForms[k]).name
                       :> ClauseValue(FirstOfForm(cs, ClauseForms[k]))) @@ acc)
         ELSE ClauseFeatures(cs, k + 1, acc)

\* What one text item records, over the features acc recorded before it.
ItemFeatures(item, acc) ==
    IF item \in UnparseableItems THEN acc
    ELSE IF item \in ItemPool THEN PoolFeatures(item) @@ acc
    ELSE ClauseFeatures(ItemClauses(item), 1, acc)

RECURSIVE LastMatchWins(_, _)
\* The features after the items in processing order, the last match for a
\* name giving its value.
LastMatchWins(items, acc) ==
    IF items = <<>> THEN acc
    ELSE LastMatchWins(Tail(items), ItemFeatures(Head(items), acc))

\* C11: with no structured features, the items are processed
\* demand.key_factors, capacity.key_factors, risk.key_factors, each list in
\* input order; in one item the two boolean forms, then the three numeric
\* forms, each contribute their first match; the value recorded for a name
\* is that of its last match in this order.
C11_LastMatchWins ==
    (AdaptReturned /\ ~StructuredFeatures) =>
        ResultFeatures = Dict(LastMatchWins(AllItems, NoKeys))

\* C11 witness: in one item a numeric match overwrites the boolean match
\* of the same name that stands before it in the text.
C11_Witness ==
    /\ AdaptReturned
    /\ AllItems = <<Str("flag is true and flag: -2")>>
    /\ ResultFeatures = Dict("flag" :> Dec(-2, 0))

====
